---- MODULE Spec2Model ----
(***************************************************************************)
(* Model of the PyOllama VS Code extension                                 *)
(* (src/vscode-ollama-extension/src/extension.ts): the command gateway     *)
(* runPyOllamaCommand, the three commands listModels, startChat and        *)
(* generateText, and the script of the chat webview.                       *)
(*                                                                         *)
(* Text is a sequence of atoms.  An atom is a one-character string, or a   *)
(* literal of the source made only of ordinary characters ("pyollama").    *)
(* Whitespace, the double quote, ";" and "~" are always atoms of their     *)
(* own, so trimming and the shell's word splitting see every character     *)
(* they act on.                                                            *)
(***************************************************************************)
EXTENDS Integers, Sequences, FiniteSets, TLC

(* ------------------------------ bounds -------------------------------- *)

\* Command invocations (startChat, generateText, listModels) of one run.
MaxOps == 2
\* sendMessage events of one run, over all chat panels.
MaxMsgs == 2

(* ------------------------------- text --------------------------------- *)

SP == " "
NL == "\n"
DQ == "\""
SEMI == ";"
TILDE == "~"

\* What String.prototype.trim removes at both ends.
IsSpace(c) == c \in {SP, NL, "\t"}

RECURSIVE TrimStart(_)
TrimStart(s) ==
    IF s # <<>> /\ IsSpace(Head(s)) THEN TrimStart(Tail(s)) ELSE s

RECURSIVE TrimEnd(_)
TrimEnd(s) ==
    IF s # <<>> /\ IsSpace(s[Len(s)]) THEN TrimEnd(SubSeq(s, 1, Len(s) - 1)) ELSE s

\* A trim that forgets the leading side.
TrimEndOnly(s) == TrimEnd(s)

\* String.prototype.trim: output.trim() and messageInput.value.trim().
Trim(s) == TrimStart(TrimEnd(s))

\* Array.prototype.join(' ').
RECURSIVE Join(_)
Join(args) ==
    IF args = <<>> THEN <<>>
    ELSE IF Len(args) = 1 THEN args[1]
    ELSE args[1] \o <<SP>> \o Join(Tail(args))

(* ------------------------- the command line --------------------------- *)

\* `${pythonPath} -m pyollama --model-dir ${modelDir} ${args.join(' ')}`
CommandLine(pythonPath, modelDir, args) ==
    pythonPath \o <<SP, "-m", SP, "pyollama", SP, "--model-dir", SP>>
        \o modelDir \o <<SP>> \o Join(args)

\* The argument list of the chat handler: ['generate', modelName, message.text].
ChatArgs(modelName, text) == << <<"generate">>, modelName, text >>

\* The argument list of generateText: ['generate', modelName, `"${selectedText}"`].
GenArgs(modelName, selectedText) ==
    << <<"generate">>, modelName, <<DQ>> \o selectedText \o <<DQ>> >>

\* The argument list of listModels: ['list'].
ListArgs == << <<"list">> >>

(* ------------------------------ the shell ------------------------------ *)

\* child_process.exec hands the command line to /bin/sh -c.  The shell's
\* reading of it, for the characters of the model: blanks separate words
\* outside double quotes, a double quote opens or closes a quoted stretch
\* (and is removed), ";" outside quotes ends a command, an unquoted "~"
\* that starts a word becomes the home directory.  A quote left open, or
\* an empty command before ";", is a syntax error: nothing runs.
Home == <<"/home/user">>

RECURSIVE ShellScan(_, _, _, _, _, _, _)
ShellScan(s, i, inQ, has, cur, words, cmds) ==
    LET flushW == IF has THEN Append(words, cur) ELSE words
    IN  IF i > Len(s)
        THEN IF inQ THEN [err |-> TRUE, cmds |-> <<>>]
             ELSE [err |-> FALSE,
                   cmds |-> IF flushW = <<>> THEN cmds ELSE Append(cmds, flushW)]
        ELSE LET c == s[i]
             IN  IF inQ
                 THEN IF c = DQ
                      THEN ShellScan(s, i + 1, FALSE, TRUE, cur, words, cmds)
                      ELSE ShellScan(s, i + 1, TRUE, TRUE, Append(cur, c), words, cmds)
                 ELSE IF c = DQ
                      THEN ShellScan(s, i + 1, TRUE, TRUE, cur, words, cmds)
                 ELSE IF c \in {SP, "\t"}
                      THEN ShellScan(s, i + 1, FALSE, FALSE, <<>>, flushW, cmds)
                 ELSE IF c \in {SEMI, NL}
                      THEN IF flushW = <<>> /\ c = SEMI
                           THEN [err |-> TRUE, cmds |-> <<>>]
                           ELSE ShellScan(s, i + 1, FALSE, FALSE, <<>>, <<>>,
                                          IF flushW = <<>> THEN cmds
                                          ELSE Append(cmds, flushW))
                 ELSE IF c = TILDE /\ ~has
                      THEN ShellScan(s, i + 1, FALSE, TRUE, Home, words, cmds)
                 ELSE ShellScan(s, i + 1, FALSE, TRUE, Append(cur, c), words, cmds)

\* [err, cmds]: cmds is the sequence of commands, each a sequence of words.
ShellSplit(s) == ShellScan(s, 1, FALSE, FALSE, <<>>, <<>>, <<>>)

(* ------------------------------- inputs -------------------------------- *)

\* showInputBox resolves to undefined when the user cancels it, and to the
\* text of the box (which may be empty) otherwise.
Undefined == [given |-> FALSE, value |-> <<>>]
Given(v) == [given |-> TRUE, value |-> v]

\* !modelName
Falsy(v) == ~v.given \/ v.value = <<>>

Models == { <<"llama3.2">>, <<"mistral">> }

\* What showInputBox can resolve to.
NameInputs == { Undefined } \cup { Given(v) : v \in Models \cup { <<>> } }

\* Values of messageInput.value when the user presses Send.
Inputs == { <<SP, "a", SP, "b", SP>>, <<SP>> }

\* vscode.window.activeTextEditor: none, or an editor with its selection
\* (the selected text and the position of the selection's end).
NoEditor == [present |-> FALSE, text |-> <<>>, end |-> 0]
Editors == { NoEditor } \cup
           { [present |-> TRUE, text |-> t, end |-> Len(t)] :
                 t \in { <<>>, <<"a", SP, "b">>, <<"say", SP, DQ, "hi", DQ>> } }

\* The pyollama settings: the defaults of getPythonPath and getModelDir,
\* and a configured pair whose model directory has a space in its name.
DefaultConfig == [pythonPath |-> <<"python">>, modelDir |-> <<TILDE, "/.ollama/models">>]
Configs == { DefaultConfig, [pythonPath |-> <<"python3">>, modelDir |-> <<"/my", SP, "models">>] }

\* How the child process of a call can end: exit status 0 with its output,
\* a non-zero exit status, or no process at all (the spawn failed).
Warn == <<"warning">>
Out == <<SP, "hello", NL, SP>>
Outcomes == { [kind |-> "exit", code |-> 0, stdout |-> Out, stderr |-> <<>>],
              [kind |-> "exit", code |-> 0, stdout |-> Out, stderr |-> Warn],
              [kind |-> "exit", code |-> 1, stdout |-> <<"partial">>, stderr |-> Warn],
              [kind |-> "spawn-error", code |-> -1, stdout |-> <<>>, stderr |-> <<>>] }

\* The outcomes of a call: a command line the shell cannot parse never
\* runs the runner, sh exits with a non-zero status.
OutcomesOf(c) ==
    IF ShellSplit(c.command).err
    THEN { o \in Outcomes : ~(o.kind = "exit" /\ o.code = 0) }
    ELSE Outcomes

(* -------------------------------- state -------------------------------- *)

VARIABLES
    config,    \* the pyollama settings of the configuration store
    invoked,   \* number of command invocations so far; the n-th owns slot n
    chat,      \* slot -> the chat session startChat made there
    gen,       \* slot -> the generateText invocation there
    lst,       \* slot -> the listModels invocation there
    calls,     \* the runPyOllamaCommand calls started so far, each with its caller
    notices,   \* slot -> the notices its invocation has shown
    doc,       \* the edits applied to the document, in order
    sent,      \* number of sendMessage events so far
    spawned    \* number of processes execAsync was asked to start

vars == <<config, invoked, chat, gen, lst, calls, notices, doc, sent, spawned>>

Slots == 1..MaxOps

NoChat == [state |-> "None", model |-> <<>>, panel |-> FALSE, handler |-> FALSE,
           sends |-> 0, turns |-> <<>>, toExt |-> <<>>, toView |-> <<>>, rejected |-> 0]
NoGen == [pc |-> "none", selectedText |-> <<>>, end |-> 0, model |-> <<>>]
NoList == [pc |-> "none"]

Init ==
    /\ config = DefaultConfig
    /\ invoked = 0
    /\ chat = [s \in Slots |-> NoChat]
    /\ gen = [s \in Slots |-> NoGen]
    /\ lst = [s \in Slots |-> NoList]
    /\ calls = {}
    /\ notices = [s \in Slots |-> <<>>]
    /\ doc = <<>>
    /\ sent = 0
    /\ spawned = 0

(* ----------------------------- the gateway ----------------------------- *)

\* A gateway that builds its command from the settings read once, when the
\* extension started.
GatewayCached(args) == CommandLine(DefaultConfig.pythonPath, DefaultConfig.modelDir, args)

\* runPyOllamaCommand up to execAsync(command): the settings are read and
\* the command line is built, then the process is started.
Gateway(args) == CommandLine(config.pythonPath, config.modelDir, args)

\* A call: who made it, the command line handed to exec, how its process
\* ended, and the state of the promise with the value it settled to.
NoExit == [kind |-> "none", code |-> 0, stdout |-> <<>>, stderr |-> <<>>]

NewCall(kind, slot, msg, args) ==
    [kind |-> kind, slot |-> slot, msg |-> msg, command |-> Gateway(args),
     exit |-> NoExit, status |-> "running", value |-> <<>>]

\* A gateway that runs its command a second time.
ExecTwice(p) == p + 2

\* execAsync(command) (line 43), the only use of child_process in
\* extension.ts: one more process is asked of the host.
Exec(p) == p + 1

\* The calls of one kind whose process has not ended.
Running(kind) == { c \in calls : c.kind = kind /\ c.status = "running" }

\* error.message of the rejection of execAsync.
ExecErrorMessage(command, o) ==
    IF o.kind = "spawn-error" THEN <<"spawn", SP, "/bin/sh", SP, "ENOENT">>
    ELSE <<"Command", SP, "failed:", SP>> \o command \o <<NL>> \o o.stderr

\* The call once its process ended with o and its promise is settled with r.
Settled(c, o, r) ==
    [c EXCEPT !.exit = o, !.status = IF r.ok THEN "resolved" ELSE "rejected",
              !.value = r.value]

\* A gateway that hands back what was captured also when the process failed.
RunResultSwallow(command, o) == [ok |-> TRUE, value |-> o.stdout]

\* A gateway that takes anything on standard error for a failure.
RunResultStderrFails(command, o) ==
    IF o.kind = "exit" /\ o.code = 0 /\ o.stderr = <<>>
    THEN [ok |-> TRUE, value |-> o.stdout]
    ELSE [ok |-> FALSE,
          value |-> <<"PyOllama", SP, "command", SP, "failed:", SP>>
                       \o ExecErrorMessage(command, o)]

\* runPyOllamaCommand from execAsync on: stdout when the process exited
\* with status 0 (stderr is only logged), otherwise the thrown Error.
RunResult(command, o) ==
    IF o.kind = "exit" /\ o.code = 0
    THEN [ok |-> TRUE, value |-> o.stdout]
    ELSE [ok |-> FALSE,
          value |-> <<"PyOllama", SP, "command", SP, "failed:", SP>>
                       \o ExecErrorMessage(command, o)]

(* ----------------------------- startChat ------------------------------- *)

\* The command is invoked: showInputBox is put up (lines 62-66).
StartChat ==
    /\ invoked < MaxOps
    /\ invoked' = invoked + 1
    /\ chat' = [chat EXCEPT ![invoked + 1].state = "AwaitingName"]
    /\ UNCHANGED <<config, gen, lst, calls, notices, doc, sent, spawned>>

\* A startChat that goes on whatever the input box gave.
NamedSessionUnchecked(c, name) ==
    [c EXCEPT !.state = "Open", !.model = name.value, !.panel = TRUE, !.handler = TRUE]

\* startChat from the answer of the input box on (lines 68-102): nothing
\* without a name; otherwise the panel is created, its html set and the
\* message handler registered.
NamedSession(c, name) ==
    IF Falsy(name)
    THEN [c EXCEPT !.state = "Closed"]
    ELSE [c EXCEPT !.state = "Open", !.model = name.value, !.panel = TRUE, !.handler = TRUE]

AnswerChatName(s, name) ==
    /\ chat[s].state = "AwaitingName"
    /\ chat' = [chat EXCEPT ![s] = NamedSession(chat[s], name)]
    /\ UNCHANGED <<config, invoked, gen, lst, calls, notices, doc, sent, spawned>>

\* A disposal that also takes the running calls of its panel away.
DisposeAborting(s) ==
    /\ chat[s].state = "Open"
    /\ chat' = [chat EXCEPT ![s].state = "Closed", ![s].toExt = <<>>, ![s].toView = <<>>]
    /\ calls' = { c \in calls : ~(c.kind = "chat" /\ c.slot = s /\ c.status = "running") }
    /\ UNCHANGED <<config, invoked, gen, lst, notices, doc, sent, spawned>>

\* The host disposes the panel (the user closes it): the webview, with the
\* messages not yet delivered either way, is gone.  extension.ts registers
\* nothing for it.
Dispose(s) ==
    /\ chat[s].state = "Open"
    /\ chat' = [chat EXCEPT ![s].state = "Closed", ![s].toExt = <<>>, ![s].toView = <<>>]
    /\ UNCHANGED <<config, invoked, gen, lst, calls, notices, doc, sent, spawned>>

(* --------------------------- the chat webview --------------------------- *)

\* An addMessage that puts the new div on top of the container.
AddMessageOnTop(turns, text, isUser, msg) ==
    << [cls |-> IF isUser THEN "user-message" ELSE "assistant-message",
        text |-> text, msg |-> msg] >> \o turns

\* addMessage(text, isUser): one more div at the end of chat-container.
\* msg tags the turn with the number, within its panel, of the sendMessage
\* event it belongs to.
AddMessage(turns, text, isUser, msg) ==
    Append(turns, [cls |-> IF isUser THEN "user-message" ELSE "assistant-message",
                   text |-> text, msg |-> msg])

\* A webview that posts the message without showing it.
SendUnechoed(s, input) ==
    /\ chat[s].state = "Open"
    /\ sent < MaxMsgs
    /\ LET text == Trim(input)
           n == chat[s].sends + 1
       IN  /\ text # <<>>
           /\ chat' = [chat EXCEPT
                  ![s].sends = n,
                  ![s].toExt = Append(@, [type |-> "sendMessage", text |-> text, msg |-> n])]
    /\ sent' = sent + 1
    /\ UNCHANGED <<config, invoked, gen, lst, calls, notices, doc, spawned>>

\* sendMessage() of the webview (lines 227-234), with `input` the value of
\* the input box: nothing happens when it trims to the empty string.
Send(s, input) ==
    /\ chat[s].state = "Open"
    /\ sent < MaxMsgs
    /\ LET text == Trim(input)
           n == chat[s].sends + 1
       IN  /\ text # <<>>
           /\ chat' = [chat EXCEPT
                  ![s].sends = n,
                  ![s].turns = AddMessage(@, text, TRUE, n),
                  ![s].toExt = Append(@, [type |-> "sendMessage", text |-> text, msg |-> n])]
    /\ sent' = sent + 1
    /\ UNCHANGED <<config, invoked, gen, lst, calls, notices, doc, spawned>>

\* The webview's message listener (lines 243-250).
Shown(turns, m) ==
    IF m.type = "response" THEN AddMessage(turns, m.text, FALSE, m.msg)
    ELSE IF m.type = "error" THEN AddMessage(turns, <<"Error:", SP>> \o m.text, FALSE, m.msg)
    ELSE turns

ViewReceive(s) ==
    /\ chat[s].state = "Open"
    /\ chat[s].toView # <<>>
    /\ chat' = [chat EXCEPT ![s].turns = Shown(@, Head(chat[s].toView)),
                            ![s].toView = Tail(@)]
    /\ UNCHANGED <<config, invoked, gen, lst, calls, notices, doc, sent, spawned>>

(* ------------------------- the message handler -------------------------- *)

\* A handler that starts no call while another call of its panel runs.
StartedSerial(cs, s, m, call) ==
    IF \E c \in cs : c.kind = "chat" /\ c.slot = s /\ c.status = "running"
    THEN cs
    ELSE cs \cup {call}

\* A handler that runs the command by itself and calls no gateway.
StartedOutside(cs, s, m, call) == cs

\* The calls after the handler got message m (lines 85-90): one more.
Started(cs, s, m, call) == cs \cup {call}

\* onDidReceiveMessage's callback up to its await (lines 85-90).  The host
\* delivers to it only while the panel lives.
HandlerReceive(s) ==
    /\ chat[s].state = "Open"
    /\ chat[s].handler
    /\ chat[s].toExt # <<>>
    /\ LET m == Head(chat[s].toExt)
       IN  /\ calls' = IF m.type = "sendMessage"
                       THEN Started(calls, s, m,
                                    NewCall("chat", s, m.msg, ChatArgs(chat[s].model, m.text)))
                       ELSE calls
           /\ spawned' = IF m.type = "sendMessage" THEN Exec(spawned) ELSE spawned
    /\ chat' = [chat EXCEPT ![s].toExt = Tail(@)]
    /\ UNCHANGED <<config, invoked, gen, lst, notices, doc, sent>>

\* A postMessage that does not look at the panel.
PostedAnyway(c, m) == [c EXCEPT !.toView = Append(@, m)]

\* chatPanel.webview.postMessage(m) (lines 91-94, 96-99): on a disposed
\* panel the access to chatPanel.webview throws, from the try block and
\* then from the catch block, and the callback's promise is rejected.
Posted(c, m) ==
    IF c.state = "Open" THEN [c EXCEPT !.toView = Append(@, m)]
    ELSE [c EXCEPT !.rejected = @ + 1]

\* A callback that tells the webview nothing when the call failed.
RepliedOnlyOnSuccess(c, r, msg) ==
    IF r.ok THEN Posted(c, [type |-> "response", text |-> Trim(r.value), msg |-> msg])
    ELSE c

\* A callback that gives the panel up when the call failed.
RepliedGivingUp(c, r, msg) ==
    IF r.ok THEN Posted(c, [type |-> "response", text |-> Trim(r.value), msg |-> msg])
    ELSE [c EXCEPT !.state = "Closed", !.handler = FALSE]

\* A callback that posts nothing when its call has ended.
RepliedNothing(c, r, msg) == c

\* The callback after its await (lines 91-100).
Replied(c, r, msg) ==
    IF r.ok THEN Posted(c, [type |-> "response", text |-> Trim(r.value), msg |-> msg])
    ELSE Posted(c, [type |-> "error", text |-> r.value, msg |-> msg])

\* A callback that posts to the panel opened last, as if the panel were
\* kept in one variable shared by all sessions.
CompleteChatToLatest(c, o) ==
    /\ c \in Running("chat")
    /\ LET r == RunResult(c.command, o)
           s == CHOOSE t \in Slots :
                    /\ chat[t].panel
                    /\ \A u \in Slots : chat[u].panel => u <= t
       IN  /\ calls' = (calls \ {c}) \cup {Settled(c, o, r)}
           /\ chat' = [chat EXCEPT ![s] = Replied(chat[s], r, c.msg)]
    /\ UNCHANGED <<config, invoked, gen, lst, notices, doc, sent, spawned>>

\* The process of call c ends with outcome o, one of OutcomesOf(c), and the callback of its chat
\* panel goes on (lines 43-50, 91-100).
CompleteChat(c, o) ==
    /\ c \in Running("chat")
    /\ LET r == RunResult(c.command, o)
           s == c.slot
       IN  /\ calls' = (calls \ {c}) \cup {Settled(c, o, r)}
           /\ chat' = [chat EXCEPT ![s] = Replied(chat[s], r, c.msg)]
    /\ UNCHANGED <<config, invoked, gen, lst, notices, doc, sent, spawned>>

(* ----------------------------- notices --------------------------------- *)

\* vscode.window.showErrorMessage / showInformationMessage.
ErrorNotice(text) == [type |-> "error", text |-> text]
InfoNotice(text) == [type |-> "info", text |-> text]

(* ---------------------------- generateText ----------------------------- *)

\* A generateText that asks for the model whatever is selected.
GenStartedUnchecked(ed) ==
    IF ~ed.present THEN "noEditor" ELSE "AwaitingName"

\* Where generateText stands after its checks of the editor and of the
\* selection (lines 106-118).
GenStarted(ed) ==
    IF ~ed.present THEN "noEditor"
    ELSE IF ed.text = <<>> THEN "noSelection"
    ELSE "AwaitingName"

\* Checks that fail without a word to the user.
GenCheckSilent(pc) == <<>>

\* The notice of a failed check.
GenCheckNotice(pc) ==
    IF pc = "noEditor" THEN << ErrorNotice(<<"No active editor found">>) >>
    ELSE IF pc = "noSelection"
    THEN << ErrorNotice(<<"Please select some text to use as a prompt">>) >>
    ELSE <<>>

\* The command is invoked with `ed` the active editor (lines 105-123).
InvokeGenerate(ed) ==
    /\ invoked < MaxOps
    /\ invoked' = invoked + 1
    /\ LET pc == GenStarted(ed)
       IN  /\ gen' = [gen EXCEPT ![invoked + 1] =
                          [pc |-> pc, selectedText |-> ed.text, end |-> ed.end,
                           model |-> <<>>]]
           /\ notices' = [notices EXCEPT ![invoked + 1] = @ \o GenCheckNotice(pc)]
    /\ UNCHANGED <<config, chat, lst, calls, doc, sent, spawned>>

\* The input box of generateText is answered (lines 125-130): nothing
\* without a name, otherwise the gateway is called.
AnswerGenName(g, name) ==
    /\ gen[g].pc = "AwaitingName"
    /\ IF Falsy(name)
       THEN /\ gen' = [gen EXCEPT ![g].pc = "noName"]
            /\ calls' = calls
            /\ spawned' = spawned
       ELSE /\ gen' = [gen EXCEPT ![g].pc = "running", ![g].model = name.value]
            /\ calls' = calls \cup
                          {NewCall("gen", g, 0, GenArgs(name.value, gen[g].selectedText))}
            /\ spawned' = Exec(spawned)
    /\ UNCHANGED <<config, invoked, chat, lst, notices, doc, sent>>

\* A generateText that also puts what the failed process had written into
\* the document.
CompleteGenInsertsPartial(c, o) ==
    /\ c \in Running("gen")
    /\ LET r == RunResult(c.command, o)
           g == c.slot
       IN  /\ calls' = (calls \ {c}) \cup {Settled(c, o, r)}
           /\ doc' = Append(doc, [at |-> gen[g].end, slot |-> g,
                                  text |-> <<NL, NL>> \o Trim(o.stdout)])
           /\ gen' = [gen EXCEPT ![g].pc = IF r.ok THEN "inserted" ELSE "failed"]
           /\ notices' = IF r.ok THEN notices
                         ELSE [notices EXCEPT ![g] = Append(@,
                                  ErrorNotice(<<"Generation", SP, "failed:", SP>> \o r.value))]
    /\ UNCHANGED <<config, invoked, chat, lst, sent, spawned>>

\* The process of a generateText call ends (lines 43-50, 131-136): the
\* text goes into the document at the end of the selection, or an error
\* notice is shown.
CompleteGen(c, o) ==
    /\ c \in Running("gen")
    /\ LET r == RunResult(c.command, o)
           g == c.slot
       IN  /\ calls' = (calls \ {c}) \cup {Settled(c, o, r)}
           /\ IF r.ok
              THEN /\ doc' = Append(doc, [at |-> gen[g].end, slot |-> g,
                                          text |-> <<NL, NL>> \o Trim(r.value)])
                   /\ gen' = [gen EXCEPT ![g].pc = "inserted"]
                   /\ notices' = notices
              ELSE /\ doc' = doc
                   /\ gen' = [gen EXCEPT ![g].pc = "failed"]
                   /\ notices' = [notices EXCEPT ![g] = Append(@,
                          ErrorNotice(<<"Generation", SP, "failed:", SP>> \o r.value))]
    /\ UNCHANGED <<config, invoked, chat, lst, sent, spawned>>

(* ----------------------------- listModels ------------------------------ *)

\* The command is invoked (lines 53-55): the gateway is called at once.
InvokeList ==
    /\ invoked < MaxOps
    /\ invoked' = invoked + 1
    /\ lst' = [lst EXCEPT ![invoked + 1].pc = "running"]
    /\ calls' = calls \cup {NewCall("list", invoked + 1, 0, ListArgs)}
    /\ spawned' = Exec(spawned)
    /\ UNCHANGED <<config, chat, gen, notices, doc, sent>>

\* A listModels that shows whatever came back as the list of models.
ListNoticeAlwaysInfo(r) == InfoNotice(<<"Models:", NL>> \o r.value)

\* The notice listModels shows for the result r of its call (lines 56-58).
ListNotice(r) ==
    IF r.ok THEN InfoNotice(<<"Models:", NL>> \o r.value)
    ELSE ErrorNotice(<<"Failed", SP, "to", SP, "list", SP, "models:", SP>> \o r.value)

CompleteList(c, o) ==
    /\ c \in Running("list")
    /\ LET r == RunResult(c.command, o)
           l == c.slot
       IN  /\ calls' = (calls \ {c}) \cup {Settled(c, o, r)}
           /\ lst' = [lst EXCEPT ![l].pc = IF r.ok THEN "shown" ELSE "failed"]
           /\ notices' = [notices EXCEPT ![l] = Append(@, ListNotice(r))]
    /\ UNCHANGED <<config, invoked, chat, gen, doc, sent, spawned>>

(* ------------------------- the configuration --------------------------- *)

\* The user changes the pyollama settings.
ChangeConfig(c) ==
    /\ c \in Configs
    /\ c # config
    /\ config' = c
    /\ UNCHANGED <<invoked, chat, gen, lst, calls, notices, doc, sent, spawned>>

(* --------------------------- specification ----------------------------- *)

\* The steps of the chat sessions.
NextChat ==
    \/ StartChat
    \/ \E s \in Slots, name \in NameInputs : AnswerChatName(s, name)
    \/ \E s \in Slots : Dispose(s)
    \/ \E s \in Slots, input \in Inputs : Send(s, input)
    \/ \E s \in Slots : HandlerReceive(s)
    \/ \E s \in Slots : ViewReceive(s)
    \/ \E c \in Running("chat") : \E o \in OutcomesOf(c) : CompleteChat(c, o)

\* The steps of generateText and listModels.
NextOneShot ==
    \/ \E ed \in Editors : InvokeGenerate(ed)
    \/ \E g \in Slots, name \in NameInputs : AnswerGenName(g, name)
    \/ \E c \in Running("gen") : \E o \in OutcomesOf(c) : CompleteGen(c, o)
    \/ InvokeList
    \/ \E c \in Running("list") : \E o \in OutcomesOf(c) : CompleteList(c, o)

Next == NextChat \/ NextOneShot

\* The three commands under fixed settings.
Spec == Init /\ [][Next]_vars

\* The chat sessions alone, and the one-shot commands alone.
SpecChat == Init /\ [][NextChat]_vars
SpecOneShot == Init /\ [][NextOneShot]_vars

\* The scheduling the chat rests on: the extension host and the webview
\* each deliver every message queued for a live panel, and the process of
\* every call ends (it exits, or was never spawned).
FairChat ==
    /\ \A s \in Slots : WF_vars(HandlerReceive(s)) /\ WF_vars(ViewReceive(s))
    /\ \A s \in Slots, n \in 1..MaxMsgs :
           WF_vars(\E c \in Running("chat") :
                       /\ c.slot = s /\ c.msg = n
                       /\ \E o \in OutcomesOf(c) : CompleteChat(c, o))

\* The chat sessions under that scheduling.
SpecChatFair == SpecChat /\ FairChat

\* The three commands while the user also edits the settings.
SpecConfig == Init /\ [][Next \/ \E c \in Configs : ChangeConfig(c)]_vars

(* ------------------------------ properties ----------------------------- *)

\* The calls a slot's invocation has made.
CallsOf(kind, s) == { c \in calls : c.kind = kind /\ c.slot = s }

\* The turns of a panel of one class that belong to message n.
TurnsOf(s, cls, n) ==
    { i \in 1..Len(chat[s].turns) : chat[s].turns[i].cls = cls /\ chat[s].turns[i].msg = n }

\* The prompt text of a generate call: the text of the chat message, or
\* the selected text.
PromptOf(c) ==
    IF c.kind = "chat"
    THEN LET i == CHOOSE i \in TurnsOf(c.slot, "user-message", c.msg) : TRUE
         IN  chat[c.slot].turns[i].text
    ELSE gen[c.slot].selectedText

\* The words before the prompt in the runner's argument list.
IsGenerateArgv(argv) ==
    /\ Len(argv) = 8
    /\ argv[2] = <<"-m">> /\ argv[3] = <<"pyollama">> /\ argv[4] = <<"--model-dir">>
    /\ argv[6] = <<"generate">>

\* C1: for every generate call, from a chat panel or from generateText,
\* the shell reads the command line as one command whose last word is the
\* prompt, character for character.
C1_PromptIsOneArgument ==
    \A c \in calls : c.kind \in {"chat", "gen"} =>
        LET sh == ShellSplit(c.command)
        IN  /\ ~sh.err
            /\ Len(sh.cmds) = 1
            /\ IsGenerateArgv(sh.cmds[1])
            /\ sh.cmds[1][8] = PromptOf(c)

\* C1 on the chat path alone: the handler joins message.text into the
\* command line as it is.
C1_ChatPromptIsOneArgument ==
    \A c \in calls : c.kind = "chat" =>
        LET sh == ShellSplit(c.command)
        IN  ~sh.err /\ Len(sh.cmds) = 1 /\ IsGenerateArgv(sh.cmds[1])
            /\ sh.cmds[1][8] = PromptOf(c)

\* A panel all of whose messages are resolved: nothing on the way to the
\* handler, no call running, nothing on the way to the webview.
AllResolved(s) ==
    /\ chat[s].toExt = <<>>
    /\ chat[s].toView = <<>>
    /\ \A c \in CallsOf("chat", s) : c.status # "running"

\* C2: in an open panel whose N messages are all resolved, each message
\* has exactly one user turn and exactly one assistant-side turn (a
\* response or an error), so there are N of each.
C2_TurnsBalance ==
    \A s \in Slots :
        (chat[s].state = "Open" /\ AllResolved(s)) =>
            /\ Len(chat[s].turns) = 2 * chat[s].sends
            /\ \A n \in 1..chat[s].sends :
                   /\ Cardinality(TurnsOf(s, "user-message", n)) = 1
                   /\ Cardinality(TurnsOf(s, "assistant-message", n)) = 1

IsErrorTurn(t) ==
    t.cls = "assistant-message" /\ Len(t.text) >= 2 /\ SubSeq(t.text, 1, 2) = <<"Error:", SP>>

C2_Witness ==
    \E s \in Slots :
        /\ chat[s].state = "Open" /\ AllResolved(s) /\ chat[s].sends = 2
        /\ \E i, j \in 1..Len(chat[s].turns) :
               /\ IsErrorTurn(chat[s].turns[i])
               /\ chat[s].turns[j].cls = "assistant-message"
               /\ ~IsErrorTurn(chat[s].turns[j])

\* A session that ended at the input box: closed, and no panel was made.
Cancelled(s) == chat[s].state = "Closed" /\ ~chat[s].panel

\* The answer to the input box of startChat either opens the session under
\* the given, non-empty name, or closes it and changes nothing else.
C3_Step ==
    \A s \in Slots :
        (chat[s].state = "AwaitingName" /\ chat'[s] # chat[s]) =>
            \/ /\ chat'[s].state = "Open"
               /\ chat'[s].panel
               /\ chat'[s].model \in Models
            \/ /\ chat'[s] = [chat[s] EXCEPT !.state = "Closed"]
               /\ calls' = calls

\* A panel is made only for a name; a session without a panel is not open
\* and has no handler, no turns, no messages and no call.
C3_NoPanelNoSession ==
    \A s \in Slots :
        /\ chat[s].panel => chat[s].model # <<>>
        /\ ~chat[s].panel =>
               /\ chat[s].state \in {"None", "AwaitingName", "Closed"}
               /\ ~chat[s].handler
               /\ chat[s].turns = <<>> /\ chat[s].toExt = <<>> /\ chat[s].toView = <<>>
               /\ CallsOf("chat", s) = {}

\* C3: cancelling the input box of startChat (or leaving it empty) closes
\* the session at once: no panel is made, the session is never open, no
\* handler is registered, no call is made, and it stays so.
C3_CancelClosesWithoutView ==
    /\ [][C3_Step]_vars
    /\ [](C3_NoPanelNoSession)
    /\ [][\A s \in Slots : Cancelled(s) => chat'[s] = chat[s]]_vars

C3_Witness == \E s \in Slots : Cancelled(s) /\ calls = {}

\* C4: generateText calls the gateway only with a non-empty selection and a
\* non-empty model name, and at most once; an invocation that ended at one
\* of its checks, or still waits for the name, has made no call.
C4_GenerateChecksFirst ==
    \A g \in Slots :
        /\ Cardinality(CallsOf("gen", g)) <= 1
        /\ CallsOf("gen", g) # {} =>
               /\ gen[g].selectedText # <<>>
               /\ gen[g].model # <<>>
               /\ gen[g].pc \in {"running", "inserted", "failed"}
        /\ gen[g].pc \in {"none", "noEditor", "noSelection", "noName", "AwaitingName"} =>
               CallsOf("gen", g) = {}
        /\ gen[g].pc \in {"noEditor", "noSelection"} => gen[g].selectedText = <<>>

C4_Witness ==
    \E g, h \in Slots :
        /\ gen[g].pc = "noSelection"
        /\ gen[h].pc = "noName"
        /\ calls = {}

\* How the process of a settled call ended.
Failed(c) == c.exit.kind = "spawn-error" \/ (c.exit.kind = "exit" /\ c.exit.code # 0)

\* C5: a call whose process exited with a non-zero status, or was never
\* spawned, is rejected with a non-empty message and its caller goes down
\* its error branch; a call is resolved exactly when its process exited
\* with status 0.
C5_FailureIsGatewayError ==
    \A c \in calls :
        c.status # "running" =>
            /\ Failed(c) <=> c.status = "rejected"
            /\ ~Failed(c) <=> c.status = "resolved"
            /\ Failed(c) => c.value # <<>>
            /\ c.kind = "gen" => (Failed(c) <=> gen[c.slot].pc = "failed")
            /\ c.kind = "gen" => (~Failed(c) <=> gen[c.slot].pc = "inserted")
            /\ c.kind = "list" => (Failed(c) <=> lst[c.slot].pc = "failed")
            /\ c.kind = "list" => (~Failed(c) <=> lst[c.slot].pc = "shown")

C5_Witness ==
    \E c, d \in calls :
        /\ c.exit.kind = "spawn-error" /\ c.status = "rejected"
        /\ d.exit.kind = "exit" /\ d.exit.code = 1 /\ d.status = "rejected"

AllSpace(t) == \A i \in 1..Len(t) : IsSpace(t[i])

\* t is s without its trailing whitespace.
IsTrailingTrimOf(t, s) ==
    \E j \in 0..Len(s) :
        /\ t = SubSeq(s, 1, Len(s) - j)
        /\ AllSpace(SubSeq(s, Len(s) - j + 1, Len(s)))
        /\ t = <<>> \/ ~IsSpace(t[Len(t)])

\* t is s without its leading and its trailing whitespace.
IsTrimOf(t, s) ==
    \E i, j \in 0..Len(s) :
        /\ i + j <= Len(s)
        /\ t = SubSeq(s, i + 1, Len(s) - j)
        /\ AllSpace(SubSeq(s, 1, i))
        /\ AllSpace(SubSeq(s, Len(s) - j + 1, Len(s)))
        /\ t = <<>> \/ (~IsSpace(t[1]) /\ ~IsSpace(t[Len(t)]))

\* The texts a chat panel got, or shows, as the answer to message n.
AnswersTo(s, n) ==
    { chat[s].toView[i] : i \in { k \in 1..Len(chat[s].toView) : chat[s].toView[k].msg = n } }
    \cup
    { [type |-> IF IsErrorTurn(chat[s].turns[i]) THEN "error" ELSE "response",
       text |-> IF IsErrorTurn(chat[s].turns[i])
                THEN SubSeq(chat[s].turns[i].text, 3, Len(chat[s].turns[i].text))
                ELSE chat[s].turns[i].text,
       msg |-> n] : i \in TurnsOf(s, "assistant-message", n) }

\* The texts generateText put into the document for slot g.
InsertedBy(g) == { doc[i].text : i \in { k \in 1..Len(doc) : doc[k].slot = g } }

\* C6 as stated: what the gateway yields for a process that exited with
\* status 0, and what each caller then shows, is the captured output
\* without its trailing whitespace.
C6_TrailingTrimEverywhere ==
    \A c \in calls : c.status = "resolved" =>
        /\ IsTrailingTrimOf(c.value, c.exit.stdout)
        /\ c.kind = "list" =>
               \A i \in 1..Len(notices[c.slot]) :
                   IsTrailingTrimOf(SubSeq(notices[c.slot][i].text, 3,
                                           Len(notices[c.slot][i].text)), c.exit.stdout)
        /\ c.kind = "gen" =>
               \A t \in InsertedBy(c.slot) :
                   IsTrailingTrimOf(SubSeq(t, 3, Len(t)), c.exit.stdout)
        /\ c.kind = "chat" =>
               \A m \in AnswersTo(c.slot, c.msg) : IsTrailingTrimOf(m.text, c.exit.stdout)

\* C6, amended: the gateway yields the captured output unchanged; the chat
\* handler and generateText strip the whitespace of both ends before they
\* post or insert it, listModels shows it as captured.
C6_CallersTrimBothEnds ==
    \A c \in calls : c.status = "resolved" =>
        /\ c.value = c.exit.stdout
        /\ c.kind = "list" =>
               notices[c.slot] = << InfoNotice(<<"Models:", NL>> \o c.exit.stdout) >>
        /\ c.kind = "gen" =>
               /\ Cardinality(InsertedBy(c.slot)) = 1
               /\ \A t \in InsertedBy(c.slot) :
                      /\ SubSeq(t, 1, 2) = <<NL, NL>>
                      /\ IsTrimOf(SubSeq(t, 3, Len(t)), c.exit.stdout)
        /\ c.kind = "chat" =>
               /\ chat[c.slot].state = "Open" => AnswersTo(c.slot, c.msg) # {}
               /\ \A m \in AnswersTo(c.slot, c.msg) :
                      m.type = "response" /\ IsTrimOf(m.text, c.exit.stdout)

C6_Witness ==
    \E c, d \in calls :
        /\ c.kind = "chat" /\ c.status = "resolved"
        /\ c.exit.stdout = <<SP, "hello", NL, SP>>
        /\ \E i \in TurnsOf(c.slot, "assistant-message", c.msg) :
               chat[c.slot].turns[i].text = <<"hello">>
        /\ d.kind = "list" /\ d.status = "resolved"
        /\ notices[d.slot] # <<>>

\* C7 as stated: every invocation that ended for want of an input (no
\* name for startChat or generateText, no editor, no selection) has shown
\* a notice.
C7_MissingInputAlwaysNoticed ==
    \A s \in Slots :
        (Cancelled(s) \/ gen[s].pc \in {"noEditor", "noSelection", "noName"}) =>
            notices[s] # <<>>

\* C7, amended: no invocation that ended for want of an input has made a
\* call; without an editor or a selection exactly one error notice is
\* shown, without a model name (in startChat as in generateText) the
\* command returns with no notice.
C7_MissingInputBeforeSpawn ==
    \A s \in Slots :
        /\ (Cancelled(s) \/ gen[s].pc \in {"noEditor", "noSelection", "noName"}) =>
               \A c \in calls : c.slot # s
        /\ gen[s].pc = "noEditor" =>
               notices[s] = << ErrorNotice(<<"No active editor found">>) >>
        /\ gen[s].pc = "noSelection" =>
               notices[s] = << ErrorNotice(<<"Please select some text to use as a prompt">>) >>
        /\ (Cancelled(s) \/ gen[s].pc = "noName") => notices[s] = <<>>

C7_Witness ==
    \E s, g \in Slots :
        /\ Cancelled(s)
        /\ gen[g].pc = "noSelection"
        /\ notices[g] # <<>>

\* Nothing of a closed session changes in a step, but for the count of
\* rejected callbacks.
C8_Step ==
    \A s \in Slots :
        chat[s].state = "Closed" =>
            /\ chat'[s].state = "Closed"
            /\ chat'[s].turns = chat[s].turns
            /\ chat'[s].toView = <<>> /\ chat[s].toView = <<>>
            /\ chat'[s].toExt = <<>> /\ chat[s].toExt = <<>>
            /\ chat'[s].sends = chat[s].sends
            /\ Cardinality(CallsOf("chat", s)') = Cardinality(CallsOf("chat", s))

EachReceivedHasItsCall(s) ==
    \A n \in 1..chat[s].sends :
        LET pending == \E i \in 1..Len(chat[s].toExt) : chat[s].toExt[i].msg = n
            own == { c \in CallsOf("chat", s) : c.msg = n }
        IN  /\ pending => own = {}
            /\ ~pending => Cardinality(own) = 1

\* The end of a call, failed or not, leaves an open session open with its
\* handler registered and one more message on the way to its webview; a
\* step that closes a session settles no call.
C9_Step ==
    /\ \A c \in Running("chat") :
           (c \notin calls' /\ chat[c.slot].state = "Open") =>
               /\ chat'[c.slot].state = "Open"
               /\ chat'[c.slot].handler
               /\ Len(chat'[c.slot].toView) = Len(chat[c.slot].toView) + 1
    /\ \A s \in Slots :
           (chat[s].state = "Open" /\ chat'[s].state # "Open") => calls' = calls

\* An open session has its handler and a call for every message received;
\* the commands can be invoked whatever the earlier invocations came to.
C9_State ==
    /\ \A s \in Slots :
           chat[s].state = "Open" => chat[s].handler /\ EachReceivedHasItsCall(s)
    /\ invoked < MaxOps =>
           /\ ENABLED StartChat
           /\ ENABLED InvokeList
           /\ ENABLED (\E ed \in Editors : InvokeGenerate(ed))

\* C9: a failed chat turn never ends the session: it stays open with its
\* handler, the error goes to the webview, later messages get their calls
\* like any other, and after a failed one-shot command the commands can be
\* invoked again.
C9_FailureKeepsSessionOpen == [][C9_Step]_vars /\ [](C9_State)

C9_Witness ==
    \E s \in Slots :
        /\ chat[s].state = "Open"
        /\ Len(chat[s].turns) = 4
        /\ IsErrorTurn(chat[s].turns[2]) /\ chat[s].turns[2].msg = 1
        /\ chat[s].turns[3].cls = "user-message" /\ chat[s].turns[3].msg = 2
        /\ chat[s].turns[4].cls = "assistant-message" /\ chat[s].turns[4].msg = 2
        /\ ~IsErrorTurn(chat[s].turns[4])

\* C10: in an open panel every received message has its own call, however
\* many calls are running, and every answer on its way to the webview, or
\* shown there, is the result of the call of its own message.
C10_IndependentCalls ==
    \A s \in Slots :
        chat[s].state = "Open" =>
            /\ EachReceivedHasItsCall(s)
            /\ \A n \in 1..chat[s].sends :
                   \A m \in AnswersTo(s, n) :
                       \E c \in CallsOf("chat", s) :
                           /\ c.msg = n
                           /\ m.type = "response" =>
                                  c.status = "resolved" /\ IsTrimOf(m.text, c.value)
                           /\ m.type = "error" =>
                                  c.status = "rejected" /\ m.text = c.value

\* Two calls of one panel ran at once, and the answer to the second
\* message is shown above the answer to the first.
C10_Witness ==
    \E s \in Slots :
        /\ chat[s].state = "Open"
        /\ \E i, j \in 1..Len(chat[s].turns) :
               /\ i < j
               /\ chat[s].turns[i].cls = "assistant-message" /\ chat[s].turns[i].msg = 2
               /\ chat[s].turns[j].cls = "assistant-message" /\ chat[s].turns[j].msg = 1

\* The atoms of a text.
Atoms(t) == { t[i] : i \in 1..Len(t) }

\* C11: a call whose process exited with status 0 is resolved with the
\* captured standard output, be its standard error empty or not; nothing
\* of the standard error is in the value, and the caller goes down its
\* success branch.
C11_StderrIsNotFailure ==
    \A c \in calls :
        (c.exit.kind = "exit" /\ c.exit.code = 0) =>
            /\ c.status = "resolved"
            /\ c.value = c.exit.stdout
            /\ Atoms(c.value) \cap Atoms(c.exit.stderr) = {}
            /\ c.kind = "list" =>
                   /\ lst[c.slot].pc = "shown"
                   /\ \A i \in 1..Len(notices[c.slot]) :
                          /\ notices[c.slot][i].type = "info"
                          /\ Atoms(notices[c.slot][i].text) \cap Atoms(c.exit.stderr) = {}
            /\ c.kind = "gen" =>
                   /\ gen[c.slot].pc = "inserted"
                   /\ notices[c.slot] = <<>>
                   /\ \A t \in InsertedBy(c.slot) : Atoms(t) \cap Atoms(c.exit.stderr) = {}
            /\ c.kind = "chat" =>
                   \A m \in AnswersTo(c.slot, c.msg) :
                       m.type = "response" /\ Atoms(m.text) \cap Atoms(c.exit.stderr) = {}

\* Two calls that exited with status 0, one with a warning on standard
\* error and one without, came to the same value.
C11_Witness ==
    \E c, d \in calls :
        /\ c.status = "resolved" /\ c.exit.stderr = Warn
        /\ d.status = "resolved" /\ d.exit.stderr = <<>>
        /\ c.value = d.value
        /\ c.kind = "chat" /\ AnswersTo(c.slot, c.msg) # {}

\* The argument list the caller of call c passes to the gateway.
ArgsOf(c) ==
    IF c.kind = "list" THEN ListArgs
    ELSE IF c.kind = "gen" THEN GenArgs(gen[c.slot].model, gen[c.slot].selectedText)
    ELSE ChatArgs(chat[c.slot].model, PromptOf(c))

\* The calls started in a step.
NewCalls == { c \in calls' : c.status = "running" /\ c \notin calls }

\* A call started in a step has the command line of the settings of that
\* step; every call there is keeps its command line.
C12_Step ==
    /\ \A c \in NewCalls :
           c.command = CommandLine(config.pythonPath, config.modelDir, ArgsOf(c)')
    /\ \A c \in calls :
           \E d \in calls' :
               /\ d.kind = c.kind /\ d.slot = c.slot /\ d.msg = c.msg
               /\ d.command = c.command

\* C12: every call is built from the settings as they are when it starts,
\* also the next call of a panel opened under other settings; a call that
\* is running keeps its command line when the settings change, and when
\* it ends.
C12_ConfigReadAtCallTime == [][C12_Step]_vars

\* Two messages of one open panel were sent under different settings: the
\* first call, still running, has the command line of the settings it
\* started with, the second that of the new ones.
C12_Witness ==
    \E c, d \in calls :
        /\ c.kind = "chat" /\ d.kind = "chat" /\ c.slot = d.slot
        /\ c.msg = 1 /\ d.msg = 2
        /\ c.status = "running"
        /\ chat[c.slot].state = "Open"
        /\ c.command[1] = "python" /\ d.command[1] = "python3"
        /\ config.pythonPath = <<"python3">>

\* The edits generateText asked of the document for slot g.
EditsOf(g) == { k \in 1..Len(doc) : doc[k].slot = g }

\* C13: a generateText that reached the gateway shows nothing while its
\* call runs; when the call is resolved it has asked for exactly one
\* insertion, of two newlines and the trimmed output at the end of the
\* selection it was invoked with, and has shown no notice; when the call
\* is rejected it has shown exactly one error notice and asked for no
\* insertion.
C13_GenerateOneEffect ==
    \A g \in Slots :
        /\ gen[g].pc \in {"none", "noEditor", "noSelection", "noName", "AwaitingName",
                          "running"} => EditsOf(g) = {}
        /\ gen[g].pc = "running" => notices[g] = <<>>
        /\ gen[g].pc = "inserted" =>
               /\ notices[g] = <<>>
               /\ Cardinality(EditsOf(g)) = 1
               /\ \A k \in EditsOf(g) :
                      /\ doc[k].at = gen[g].end
                      /\ doc[k].at = Len(gen[g].selectedText)
                      /\ \E c \in CallsOf("gen", g) :
                             /\ c.status = "resolved"
                             /\ doc[k].text = <<NL, NL>> \o Trim(c.exit.stdout)
        /\ gen[g].pc = "failed" =>
               /\ EditsOf(g) = {}
               /\ Len(notices[g]) = 1
               /\ notices[g][1].type = "error"
               /\ \E c \in CallsOf("gen", g) :
                      /\ c.status = "rejected"
                      /\ notices[g][1].text = <<"Generation", SP, "failed:", SP>> \o c.value

\* One generateText inserted its text, another failed with its notice.
C13_Witness ==
    \E g, h \in Slots :
        /\ gen[g].pc = "inserted" /\ gen[h].pc = "failed"
        /\ Len(doc) = 1 /\ doc[1].text = <<NL, NL, "hello">>
        /\ Len(notices[h]) = 1

\* What a listModels invocation has made and shown: one call, of the
\* `list` command line, and one notice once the call has ended.
C14_State ==
    \A l \in Slots :
        /\ lst[l].pc = "none" => CallsOf("list", l) = {}
        /\ lst[l].pc # "none" =>
               /\ Cardinality(CallsOf("list", l)) = 1
               /\ gen[l] = NoGen /\ chat[l] = NoChat
               /\ \A c \in CallsOf("list", l) :
                      /\ c.command = CommandLine(config.pythonPath, config.modelDir,
                                                 << <<"list">> >>)
                      /\ lst[l].pc = "running" =>
                             c.status = "running" /\ notices[l] = <<>>
                      /\ lst[l].pc = "shown" =>
                             /\ c.status = "resolved"
                             /\ notices[l] = << InfoNotice(<<"Models:", NL>> \o c.value) >>
                      /\ lst[l].pc = "failed" =>
                             /\ c.status = "rejected"
                             /\ notices[l] = << ErrorNotice(
                                    <<"Failed", SP, "to", SP, "list", SP, "models:", SP>>
                                        \o c.value) >>

\* A step of listModels changes nothing of the chat sessions, of the
\* generateText invocations, of the document and of the settings, and
\* nothing of another slot's notices.
C14_Step ==
    lst' # lst =>
        /\ chat' = chat /\ gen' = gen /\ doc' = doc /\ config' = config /\ sent' = sent
        /\ \A s \in Slots : lst'[s] = lst[s] => notices'[s] = notices[s]
        /\ \A c \in calls : c.kind # "list" => c \in calls'

\* C14: every listModels invocation makes exactly one call, with the
\* `list` command line, and shows exactly one notice when the call has
\* ended, an information with the output or an error; its steps change no
\* session, no generateText invocation and no document.
C14_ListOneCallOneNotice == [](C14_State) /\ [][C14_Step]_vars

\* A listModels showed the models and another one failed.
C14_Witness ==
    \E l, k \in Slots :
        /\ lst[l].pc = "shown" /\ lst[k].pc = "failed"
        /\ notices[l][1].type = "info" /\ notices[k][1].type = "error"

\* The word the shell makes of a directory name written as one word: a
\* leading "~" is the home directory.
TildeExpanded(d) == IF d # <<>> /\ d[1] = TILDE THEN Home \o Tail(d) ELSE d

\* C15: the shell reads every command line as one command in which the
\* model directory of some setting, also of one with a space in it, is the
\* one word after --model-dir, and the subcommand is the word after it.
C15_ModelDirIsOneArgument ==
    \A c \in calls :
        LET sh == ShellSplit(c.command)
        IN  /\ ~sh.err
            /\ Len(sh.cmds) = 1
            /\ Len(sh.cmds[1]) >= 6
            /\ sh.cmds[1][4] = <<"--model-dir">>
            /\ \E cfg \in Configs : sh.cmds[1][5] = TildeExpanded(cfg.modelDir)
            /\ sh.cmds[1][6] = (IF c.kind = "list" THEN <<"list">> ELSE <<"generate">>)

\* The words the runner is to get for call c under the settings cfg.
TokensOf(c, cfg) ==
    << cfg.pythonPath, <<"-m">>, <<"pyollama">>, <<"--model-dir">>,
       TildeExpanded(cfg.modelDir) >>
    \o (IF c.kind = "list" THEN << <<"list">> >>
        ELSE << <<"generate">>,
                IF c.kind = "chat" THEN chat[c.slot].model ELSE gen[c.slot].model,
                PromptOf(c) >>)

\* C16: the shell reads the command line of every call as one command
\* whose words are exactly the runner, -m, pyollama, --model-dir, the
\* model directory and then `list`, or `generate`, the model and the
\* prompt.
C16_ExactTokens ==
    \A c \in calls :
        LET sh == ShellSplit(c.command)
        IN  /\ ~sh.err
            /\ sh.cmds = << TokensOf(c, config) >>

\* The webview shows an answer, a response or an error, to message n.
Answered(s, n) == TurnsOf(s, "assistant-message", n) # {}

\* C17: every message an open panel has accepted is in the end answered in
\* the webview, by a response or by an error, unless the panel is closed
\* before.
C17_EveryMessageAnswered ==
    \A s \in Slots, n \in 1..MaxMsgs :
        (chat[s].state = "Open" /\ chat[s].sends >= n)
            ~> (Answered(s, n) \/ chat[s].state # "Open")

\* An open panel with both its messages answered, the first by an error.
C17_Witness ==
    \E s \in Slots :
        /\ chat[s].state = "Open" /\ chat[s].sends = 2
        /\ Answered(s, 1) /\ Answered(s, 2)
        /\ \E i \in TurnsOf(s, "assistant-message", 1) : IsErrorTurn(chat[s].turns[i])
        /\ \E c \in CallsOf("chat", s) : c.exit.kind = "spawn-error"

\* Every message sent has its one user turn, from the moment it is sent:
\* while it is on its way to the handler, while its call runs and after;
\* every answer in the webview stands below the user turn of its message.
C18_State ==
    \A s \in Slots :
        /\ \A n \in 1..chat[s].sends : Cardinality(TurnsOf(s, "user-message", n)) = 1
        /\ \A i \in 1..Len(chat[s].toExt) :
               TurnsOf(s, "user-message", chat[s].toExt[i].msg) # {}
        /\ \A c \in CallsOf("chat", s) : TurnsOf(s, "user-message", c.msg) # {}
        /\ \A j \in 1..Len(chat[s].turns) :
               chat[s].turns[j].cls = "assistant-message" =>
                   \E i \in TurnsOf(s, "user-message", chat[s].turns[j].msg) : i < j

\* The user turn of a message is there before the step that starts its
\* call, and no step moves or removes it.
C18_Step ==
    /\ \A c \in NewCalls :
           c.kind = "chat" => TurnsOf(c.slot, "user-message", c.msg) # {}
    /\ \A s \in Slots :
           \A i \in 1..Len(chat[s].turns) :
               /\ i <= Len(chat'[s].turns)
               /\ chat'[s].turns[i] = chat[s].turns[i]

\* C18: the user turn of every message is appended when it is sent, before
\* the call for it starts, and so stands above the response or the error
\* to that message, however the calls of the panel overlap.
C18_UserTurnFirst == [](C18_State) /\ [][C18_Step]_vars

\* Two calls of one panel overlapped and ended in the other order: both
\* user turns stand above both answers.
C18_Witness ==
    \E s \in Slots :
        /\ Len(chat[s].turns) = 4
        /\ chat[s].turns[1].cls = "user-message" /\ chat[s].turns[1].msg = 1
        /\ chat[s].turns[2].cls = "user-message" /\ chat[s].turns[2].msg = 2
        /\ chat[s].turns[3].cls = "assistant-message" /\ chat[s].turns[3].msg = 2
        /\ chat[s].turns[4].cls = "assistant-message" /\ chat[s].turns[4].msg = 1

\* As many processes have been asked of the host as calls were started.
C19_State == spawned = Cardinality(calls)

\* A step asks for a process exactly when it starts a call, one for one.
C19_Step ==
    /\ Cardinality(NewCalls) <= 1
    /\ spawned' = spawned + Cardinality(NewCalls)

\* C19: as many processes have been asked of the host as gateway calls
\* have been started; a step asks for a process exactly when it starts a
\* call, one for one, and no step of a panel, of generateText or of
\* listModels asks for one otherwise.
C19_SpawnOnlyInGateway == [](C19_State) /\ [][C19_Step]_vars

\* A chat message and a one-shot command each went through the gateway.
C19_Witness ==
    \E c, d \in calls :
        /\ c.kind = "chat" /\ d.kind \in {"list", "gen"}
        /\ spawned = 2

\* The messages of the panels and the one-shot invocations that have a
\* call.
Served ==
    { <<"chat", s, n>> : s \in Slots, n \in 1..MaxMsgs } \cup
    { <<k, s, 0>> : k \in {"gen", "list"}, s \in Slots }

CallsFor(k) == { c \in calls : c.kind = k[1] /\ c.slot = k[2] /\ c.msg = k[3] }

\* No message and no one-shot invocation has more than one call, and there
\* is one process for each that has one.
C20_State ==
    /\ \A k \in Served : Cardinality(CallsFor(k)) <= 1
    /\ spawned = Cardinality({ k \in Served : CallsFor(k) # {} })

\* The step in which a call ends, resolved or rejected, starts no call and
\* asks for no process; a call that has ended is never running again.
C20_Step ==
    /\ (\E c \in calls : c.status = "running" /\ c \notin calls') =>
           /\ NewCalls = {}
           /\ spawned' = spawned
    /\ \A c \in calls : c.status # "running" => c \in calls'

\* C20: every call stands for exactly one process, ended well or not: a
\* message or a one-shot invocation never has a second call, and the end
\* of a call, also a failed one, starts nothing.
C20_NoRetry == [](C20_State) /\ [][C20_Step]_vars

\* The first message of an open panel failed and stays failed; the user
\* sent a second one, which has its own call: two processes in all.
C20_Witness ==
    \E c, d \in calls :
        /\ c.kind = "chat" /\ d.kind = "chat" /\ c.slot = d.slot
        /\ c.msg = 1 /\ c.status = "rejected"
        /\ d.msg = 2 /\ d.status = "running"
        /\ Answered(c.slot, 1)
        /\ spawned = 2

\* The end of running call c in a step: it is in calls' as the same call,
\* settled, with the way its process ended.
EndedInStep(c) ==
    \E d \in calls' :
        /\ d.kind = c.kind /\ d.slot = c.slot /\ d.msg = c.msg /\ d.command = c.command
        /\ d.status \in {"resolved", "rejected"}
        /\ d.exit.kind \in {"exit", "spawn-error"}

\* A running call stays as it is in every step but the one in which its
\* own process ends; a step in which a message is sent, a panel is
\* disposed or a command is invoked leaves every running call running.
C21_Step ==
    /\ \A c \in calls :
           c.status = "running" => (c \in calls' \/ EndedInStep(c))
    /\ (sent' # sent \/ invoked' # invoked
          \/ \E s \in Slots : chat[s].state = "Open" /\ chat'[s].state = "Closed") =>
           \A c \in calls : c \in calls'

\* C21: nothing the user does aborts or removes a call: a running call
\* leaves the running ones only when its own process has exited or could
\* not be spawned, whatever is sent, closed or invoked meanwhile.
C21_NoCancellation == [][C21_Step]_vars

\* The panel of a running call was closed and another command invoked: the
\* call still runs.
C21_Witness ==
    \E c, d \in calls :
        /\ c.kind = "chat" /\ c.status = "running"
        /\ chat[c.slot].state = "Closed"
        /\ d.kind = "list" /\ d.slot > c.slot

\* The turns of every panel before a step are the first turns after it.
C22_Step ==
    \A s \in Slots :
        /\ Len(chat'[s].turns) >= Len(chat[s].turns)
        /\ SubSeq(chat'[s].turns, 1, Len(chat[s].turns)) = chat[s].turns

\* C22: the turns of a chat panel only grow at the end: in every step,
\* also the one in which a failed call is answered, the turns before the
\* step are a prefix of the turns after it.
C22_TurnsAppendOnly == [][C22_Step]_vars

\* A message failed, its error is shown, and the panel went on: the next
\* message stands below the error while its call runs.
C22_Witness ==
    \E s \in Slots :
        /\ Len(chat[s].turns) = 3
        /\ chat[s].turns[1].cls = "user-message"
        /\ IsErrorTurn(chat[s].turns[2])
        /\ chat[s].turns[3].cls = "user-message" /\ chat[s].turns[3].msg = 2
        /\ \E c \in CallsOf("chat", s) : c.msg = 2 /\ c.status = "running"

\* Every call of a panel has the command line of the model the panel was
\* opened for, and every answer a panel got or shows belongs to a message
\* and a call of that panel.
C23_State ==
    \A s \in Slots :
        /\ chat[s].panel => chat[s].model \in Models
        /\ \A c \in CallsOf("chat", s) :
               /\ c.msg \in 1..chat[s].sends
               /\ c.command = CommandLine(config.pythonPath, config.modelDir,
                                          ChatArgs(chat[s].model, PromptOf(c)))
        /\ \A i \in 1..Len(chat[s].toView) :
               \E c \in CallsOf("chat", s) :
                   c.msg = chat[s].toView[i].msg /\ c.status # "running"
        /\ \A j \in 1..Len(chat[s].turns) :
               chat[s].turns[j].cls = "assistant-message" =>
                   \E c \in CallsOf("chat", s) :
                       /\ c.msg = chat[s].turns[j].msg /\ c.status # "running"
                       /\ IsErrorTurn(chat[s].turns[j]) =>
                              chat[s].turns[j].text = <<"Error:", SP>> \o c.value

\* The model of a panel stays what it was opened for, and the end of a
\* call changes the panel of that call alone.
C23_Step ==
    /\ \A s \in Slots : chat[s].panel => chat'[s].model = chat[s].model
    /\ \A c \in Running("chat") :
           c \notin calls' =>
               /\ \A t \in Slots \ {c.slot} : chat'[t] = chat[t]
               /\ chat[c.slot].state = "Open" =>
                      /\ Len(chat'[c.slot].toView) = Len(chat[c.slot].toView) + 1
                      /\ chat'[c.slot].toView[Len(chat'[c.slot].toView)].msg = c.msg

\* C23: the model of a session is the one given when it was opened, for
\* good: every call of the session is built with it, and with two panels
\* open the answer to a call goes to the panel whose message started it
\* and to no other.
C23_SessionKeepsModel == [](C23_State) /\ [][C23_Step]_vars

\* Two panels are open for different models, and each shows the error of
\* its own failed call, which names its own model.
C23_Witness ==
    \E s, t \in Slots :
        /\ chat[s].state = "Open" /\ chat[t].state = "Open"
        /\ chat[s].model = <<"llama3.2">> /\ chat[t].model = <<"mistral">>
        /\ \E i \in 1..Len(chat[s].turns) :
               IsErrorTurn(chat[s].turns[i]) /\ "llama3.2" \in Atoms(chat[s].turns[i].text)
        /\ \E i \in 1..Len(chat[t].turns) :
               IsErrorTurn(chat[t].turns[i]) /\ "mistral" \in Atoms(chat[t].turns[i].text)

\* C24: a chat message and a generateText invocation with the same model
\* and the same prompt text, under the same settings, hand the same
\* command line to exec.
C24_SameCommandOnBothPaths ==
    \A c, d \in calls :
        (/\ c.kind = "chat" /\ d.kind = "gen"
         /\ chat[c.slot].model = gen[d.slot].model
         /\ PromptOf(c) = PromptOf(d)) =>
            c.command = d.command

====
